---------------------------- MODULE Spec2Model ----------------------------
(***************************************************************************)
(* A model of adimap: the ADIF parser (adif.py), the Maidenhead converter  *)
(* (maidenhead.py), the coordinate resolver and the record reduction of    *)
(* build_map (map_builder.py).                                             *)
(*                                                                         *)
(* Text is a sequence of characters; a character is a one-character        *)
(* string, except "sup2", which stands for U+00B2 (SUPERSCRIPT TWO): a     *)
(* character for which str.isdigit() is true and int() raises ValueError.  *)
(*                                                                         *)
(* A number is an exact rational [n |-> numerator, d |-> denominator],     *)
(* d > 0.  Grid results have d = 480 (the finest half cell is 1/480 of a   *)
(* degree); decimal strings have d a power of ten.  Within the bounds of   *)
(* the model no comparison made by the code depends on binary rounding.    *)
(***************************************************************************)
EXTENDS Integers, Sequences, FiniteSets, TLC

VARIABLES
    pc,             \* position of the running call
    grid,           \* maidenhead_to_latlon: its argument
    gridResult,     \* maidenhead_to_latlon: what the call produced
    lat_str,        \* parse_latlon: its first argument
    lon_str,        \* parse_latlon: its second argument
    parts,          \* parse_latlon: its locals lat and lon
    pair,           \* parse_latlon: what the call produced
    entry,          \* best_latlon: its argument
    pos,            \* best_latlon: what the call produced
    records,        \* build_map: the record list
    home_latlon,    \* build_map: the home location, or NoHome
    export_csv,     \* build_map: whether a CSV path was given
    export_geojson, \* build_map: whether a GeoJSON path was given
    idx,            \* build_map: index of the next record of the loop
    points,         \* build_map: the resolved points
    skipped,        \* build_map: the skip counter
    written,        \* build_map: the outputs written so far
    report,         \* build_map: the counts of its closing message
    pieces,         \* parse_adif: the pieces the input text is made of
    content,        \* parse_adif: the input text
    parsed          \* parse_adif: the returned record list

vars == <<pc, grid, gridResult, lat_str, lon_str, parts, pair, entry, pos, records,
          home_latlon, export_csv, export_geojson, idx, points, skipped,
          written, report, pieces, content, parsed>>

---------------------------------------------------------------------------
(* Bounds of the model *)

MaxGridLen == 9

MaxBodyLen == 3

MaxRecords == 3

MaxPieces == 4

---------------------------------------------------------------------------
(* Characters: str.upper, str.lower, str.isalpha, str.isdigit, ord, int *)

UpperLetters ==
    <<"A","B","C","D","E","F","G","H","I","J","K","L","M",
      "N","O","P","Q","R","S","T","U","V","W","X","Y","Z">>

LowerLetters ==
    <<"a","b","c","d","e","f","g","h","i","j","k","l","m",
      "n","o","p","q","r","s","t","u","v","w","x","y","z">>

Digits == <<"0","1","2","3","4","5","6","7","8","9">>

IndexIn(seq, c) == IF \E i \in DOMAIN seq : seq[i] = c
                   THEN CHOOSE i \in DOMAIN seq : seq[i] = c
                   ELSE 0

IsUpper(c) == IndexIn(UpperLetters, c) # 0

IsLower(c) == IndexIn(LowerLetters, c) # 0

IsAlpha(c) == IsUpper(c) \/ IsLower(c)

IsAsciiDigit(c) == IndexIn(Digits, c) # 0

\* str.isdigit: true for the ASCII digits and for U+00B2
IsDigit(c) == IsAsciiDigit(c) \/ c = "sup2"

IsSpace(c) == c = " "

UpperChar(c) == IF IsLower(c) THEN UpperLetters[IndexIn(LowerLetters, c)] ELSE c

LowerChar(c) == IF IsUpper(c) THEN LowerLetters[IndexIn(UpperLetters, c)] ELSE c

Upper(s) == [i \in DOMAIN s |-> UpperChar(s[i])]

\* ord(c) for the characters of the model
Ord(c) ==
    IF IsUpper(c) THEN 64 + IndexIn(UpperLetters, c)
    ELSE IF IsLower(c) THEN 96 + IndexIn(LowerLetters, c)
    ELSE IF IsAsciiDigit(c) THEN 47 + IndexIn(Digits, c)
    ELSE IF c = "sup2" THEN 178
    ELSE IF c = " " THEN 32
    ELSE IF c = "-" THEN 45
    ELSE IF c = "." THEN 46
    ELSE IF c = ":" THEN 58
    ELSE IF c = "<" THEN 60
    ELSE IF c = ">" THEN 62
    ELSE 95

\* int(c) of one character converts exactly the ASCII digits (within the model)
IntConverts(c) == IsAsciiDigit(c)

DigitVal(c) == IndexIn(Digits, c) - 1

\* s[a:b] of Python, 0-based and half-open, as a 1-based sequence
Slice(s, a, b) ==
    LET lo == IF a < 0 THEN 0 ELSE a
        hi == IF b > Len(s) THEN Len(s) ELSE b
    IN IF hi <= lo THEN <<>> ELSE SubSeq(s, lo + 1, hi)

RECURSIVE LStrip(_)
LStrip(s) == IF s # <<>> /\ IsSpace(Head(s)) THEN LStrip(Tail(s)) ELSE s

RECURSIVE RStrip(_)
RStrip(s) == IF s # <<>> /\ IsSpace(s[Len(s)])
             THEN RStrip(SubSeq(s, 1, Len(s) - 1)) ELSE s

\* str.strip()
Strip(s) == RStrip(LStrip(s))

\* all sequences over S of length at most n
SeqsUpTo(S, n) == UNION {[1..k -> S] : k \in 0..n}

---------------------------------------------------------------------------
(* Results of the calls *)

None == [kind |-> "none"]

\* the call ended in an uncaught ValueError
Raised == [kind |-> "raise"]

Unset == [kind |-> "unset"]

Rat(n, d) == [n |-> n, d |-> d]

Coord(lat, lon) == [kind |-> "coord", lat |-> lat, lon |-> lon]

\* -90.0 <= v <= 90.0 and -180.0 <= v <= 180.0
InRange(v, limit) == -limit * v.d <= v.n /\ v.n <= limit * v.d

RatEq(a, b) == a.n * b.d = b.n * a.d

---------------------------------------------------------------------------
(* maidenhead.py *)

\* the unit of a grid result: 1/480 of a degree
GridUnit == 480

\* the half cell added for the centre, by the length of the normalised grid
CellLat(n) == IF n >= 8 THEN 1 ELSE IF n >= 6 THEN 10 ELSE IF n >= 4 THEN 240 ELSE 2400

\* the whole cell of longitude in place of its half
CellLonWhole(n) == IF n >= 8 THEN 4 ELSE IF n >= 6 THEN 40 ELSE IF n >= 4 THEN 960 ELSE 9600

CellLon(n) == IF n >= 8 THEN 2 ELSE IF n >= 6 THEN 20 ELSE IF n >= 4 THEN 480 ELSE 4800

FieldLon(g) == (Ord(g[1]) - 65) * 20 * GridUnit - 180 * GridUnit

FieldLat(g) == (Ord(g[2]) - 65) * 10 * GridUnit - 90 * GridUnit

\* g[2:4].isdigit(), g[6:8].isdigit(): every character of a non-empty slice
AllDigits(s) == s # <<>> /\ \A i \in DOMAIN s : IsDigit(s[i])

\* the centre of the cell: the corner accumulated pair by pair, plus half a cell
GridCentre(g, n, sq, sub, ext) ==
    Coord(Rat(FieldLat(g)
                + (IF sq THEN DigitVal(g[4]) * 1 * GridUnit ELSE 0)
                + (IF sub THEN (Ord(g[6]) - 65) * 20 ELSE 0)
                + (IF ext THEN DigitVal(g[8]) * 2 ELSE 0)
                + CellLat(n), GridUnit),
          Rat(FieldLon(g)
                + (IF sq THEN DigitVal(g[3]) * 2 * GridUnit ELSE 0)
                + (IF sub THEN (Ord(g[5]) - 65) * 40 ELSE 0)
                + (IF ext THEN DigitVal(g[7]) * 4 ELSE 0)
                + CellLon(n), GridUnit))

\* an if/elif chain that gives absent for a grid of more than 8 characters
GridPairsUpTo8(g, n, sq, sub, ext) ==
    IF n < 2 \/ n > 8 THEN None
    ELSE IF sq /\ ~(IntConverts(g[3]) /\ IntConverts(g[4])) THEN Raised
    ELSE IF ~sq /\ n >= 3 THEN None
    ELSE IF ~sub /\ n = 5 THEN None
    ELSE IF ext /\ ~(IntConverts(g[7]) /\ IntConverts(g[8])) THEN Raised
    ELSE IF ~ext /\ n = 7 THEN None
    ELSE GridCentre(g, n, sq, sub, ext)

\* the if/elif chain over the pairs: sq, sub and ext tell which `if` is taken
GridPairs(g, n, sq, sub, ext) ==
    IF n < 2 THEN None
    ELSE IF sq /\ ~(IntConverts(g[3]) /\ IntConverts(g[4])) THEN Raised
    ELSE IF ~sq /\ n >= 3 THEN None
    ELSE IF ~sub /\ n = 5 THEN None
    ELSE IF ext /\ ~(IntConverts(g[7]) /\ IntConverts(g[8])) THEN Raised
    ELSE IF ~ext /\ n = 7 THEN None
    ELSE GridCentre(g, n, sq, sub, ext)

\* the conversion of the normalised grid g
GridOfNormalised(g) ==
    GridPairs(g, Len(g),
              Len(g) >= 4 /\ AllDigits(Slice(g, 2, 4)),
              Len(g) >= 6 /\ IsAlpha(g[5]) /\ IsAlpha(g[6]),
              Len(g) >= 8 /\ AllDigits(Slice(g, 6, 8)))

maidenhead_to_latlon(grid_) ==
    IF grid_ = <<>> THEN None ELSE GridOfNormalised(Upper(Strip(grid_)))

\* the characters a grid of the model may hold at each position
GridCharsAt(i) ==
    CASE i = 1 -> {"F", "f", "Z", " "}
      [] i = 2 -> {"N", "R", "0"}
      [] i = 3 -> {"2", "X", "sup2"}
      [] i = 4 -> {"0", "9", " "}
      [] i = 5 -> {"X", "a", "1"}
      [] i = 6 -> {"D", "Z", "-"}
      [] i = 7 -> {"4", "T", "sup2"}
      [] i = 8 -> {"5", "0", " "}
      [] OTHER -> {"Q", " "}

RECURSIVE GridsOfLen(_)
GridsOfLen(k) ==
    IF k = 0 THEN {<<>>}
    ELSE {Append(g, c) : g \in GridsOfLen(k - 1), c \in GridCharsAt(k)}

GridInputs == UNION {GridsOfLen(k) : k \in 0..MaxGridLen}

---------------------------------------------------------------------------
(* map_builder.py: parsing helpers *)

RECURSIVE DigitsValue(_)
\* the integer written by a sequence of ASCII digits and dots, dots skipped
DigitsValue(s) ==
    IF s = <<>> THEN 0
    ELSE LET front == SubSeq(s, 1, Len(s) - 1)
             c == s[Len(s)]
         IN IF c = "." THEN DigitsValue(front)
            ELSE 10 * DigitsValue(front) + DigitVal(c)

RECURSIVE Pow10(_)
Pow10(k) == IF k = 0 THEN 1 ELSE 10 * Pow10(k - 1)

CountOf(s, c) == Cardinality({i \in DOMAIN s : s[i] = c})

FracLen(body) ==
    IF IndexIn(body, ".") = 0 THEN 0 ELSE Len(body) - IndexIn(body, ".")

FloatBody(body, neg) ==
    IF /\ \A i \in DOMAIN body : IsAsciiDigit(body[i]) \/ body[i] = "."
       /\ CountOf(body, ".") <= 1
       /\ \E i \in DOMAIN body : IsAsciiDigit(body[i])
    THEN [ok |-> TRUE,
          val |-> Rat(IF neg THEN -DigitsValue(body) ELSE DigitsValue(body),
                      Pow10(FracLen(body)))]
    ELSE [ok |-> FALSE]

FloatSigned(t) ==
    IF t # <<>> /\ t[1] \in {"-", "+"} THEN FloatBody(Tail(t), t[1] = "-")
    ELSE FloatBody(t, FALSE)

\* float(text) for the decimal forms: surrounding whitespace, an optional
\* sign, digits with at most one point and at least one digit.  Every other
\* text over the characters of the model is a ValueError ([ok |-> FALSE]);
\* the inputs of the model hold no exponent, underscore, "inf" or "nan".
float(text) == FloatSigned(Strip(text))

\* `suffix = s[-1].upper() if s[-1].isalpha() else ""`
SuffixOf(s) == IF IsAlpha(s[Len(s)]) THEN UpperChar(s[Len(s)]) ELSE ""

\* `val_str = s[:-1] if suffix else s`
ValStr(s, suffix) == IF suffix # "" THEN SubSeq(s, 1, Len(s) - 1) ELSE s

\* the range test of the axis
Ranged(val, is_lat) ==
    IF is_lat /\ ~InRange(val, 90) THEN None
    ELSE IF ~is_lat /\ ~InRange(val, 180) THEN None
    ELSE [kind |-> "value", val |-> val]

\* the hemisphere letter: N and E pass, S and W negate, any other letter fails
Signed(f, suffix, is_lat) ==
    IF ~f.ok THEN None
    ELSE IF suffix # "" /\ suffix \notin {"N", "E", "S", "W"} THEN None
    ELSE Ranged(IF suffix \in {"S", "W"} THEN Rat(-f.val.n, f.val.d) ELSE f.val, is_lat)

CoordOfStripped(s, is_lat) ==
    IF s = <<>> THEN None
    ELSE Signed(float(ValStr(s, SuffixOf(s))), SuffixOf(s), is_lat)

_parse_coord(text, is_lat) == CoordOfStripped(Strip(text), is_lat)

PairOf(lat, lon) ==
    IF lat = None \/ lon = None THEN None ELSE Coord(lat.val, lon.val)

parse_latlon(lat_str_, lon_str_) ==
    PairOf(_parse_coord(lat_str_, TRUE), _parse_coord(lon_str_, FALSE))

\* the keys best_latlon reads
LAT == <<"L","A","T">>

LON == <<"L","O","N">>

GRIDSQUARE == <<"G","R","I","D","S","Q","U","A","R","E">>

MY_GRIDSQUARE == <<"M","Y","_","G","R","I","D","S","Q","U","A","R","E">>

\* the truth value of entry.get(key): the key is there and its value not empty
Truthy(entry_, key) == key \in DOMAIN entry_ /\ entry_[key] # <<>>

\* entry.get("GRIDSQUARE") or entry.get("MY_GRIDSQUARE"); the empty text
\* stands for every falsy outcome (None and ""), which `if grid` treats alike
GridOf(entry_) ==
    IF Truthy(entry_, GRIDSQUARE) THEN entry_[GRIDSQUARE]
    ELSE IF Truthy(entry_, MY_GRIDSQUARE) THEN entry_[MY_GRIDSQUARE]
    ELSE <<>>

Tagged(c, src) == [kind |-> "coord", lat |-> c.lat, lon |-> c.lon, src |-> src]

\* `if pair: return (pair[0], pair[1], "LATLON")`
DirectOf(entry_) ==
    IF Truthy(entry_, LAT) /\ Truthy(entry_, LON)
    THEN parse_latlon(entry_[LAT], entry_[LON])
    ELSE None

\* `if pair2: return (pair2[0], pair2[1], "GRID")`; a ValueError propagates
GridTagged(pair2) ==
    IF pair2 = Raised THEN Raised
    ELSE IF pair2 # None THEN Tagged(pair2, "GRID")
    ELSE None

FromGrid(g) == IF g # <<>> THEN GridTagged(maidenhead_to_latlon(g)) ELSE None

FirstOf(direct, g) ==
    IF direct # None THEN Tagged(direct, "LATLON") ELSE FromGrid(g)

best_latlon(entry_) == FirstOf(DirectOf(entry_), GridOf(entry_))

---------------------------------------------------------------------------
(* The variables a specification does not use keep these values *)

NoHome == [kind |-> "none"]

IdleGrid == grid = <<>> /\ gridResult = Unset

IdleCoord == lat_str = <<>> /\ lon_str = <<>> /\ parts = Unset /\ pair = Unset

IdleResolve == entry = <<>> /\ pos = Unset

IdleBuild ==
    /\ records = <<>> /\ home_latlon = NoHome
    /\ export_csv = FALSE /\ export_geojson = FALSE
    /\ idx = 1 /\ points = <<>> /\ skipped = 0 /\ written = {} /\ report = Unset

IdleAdif == pieces = <<>> /\ content = <<>> /\ parsed = <<>>

gridVars == <<grid, gridResult>>

coordVars == <<lat_str, lon_str, parts, pair>>

resolveVars == <<entry, pos>>

buildVars == <<records, home_latlon, export_csv, export_geojson, idx, points,
               skipped, written, report>>

adifVars == <<pieces, content, parsed>>

---------------------------------------------------------------------------
(* SpecGrid: one call of maidenhead_to_latlon on a grid of the model *)

InitGrid ==
    /\ pc = "call"
    /\ grid \in GridInputs
    /\ gridResult = Unset
    /\ IdleCoord /\ IdleResolve /\ IdleBuild /\ IdleAdif

ConvertGrid ==
    /\ pc = "call"
    /\ gridResult = Unset
    /\ gridResult' = maidenhead_to_latlon(grid)
    /\ pc' = IF gridResult' = Raised THEN "raised" ELSE "returned"
    /\ UNCHANGED <<grid, coordVars, resolveVars, buildVars, adifVars>>

NextGrid == ConvertGrid

SpecGrid == InitGrid /\ [][NextGrid]_vars

---------------------------------------------------------------------------
(* SpecCoord: one call of parse_latlon on two coordinate texts *)

BodyChars == {"0", "1", "8", "9", ".", "-", " "}

Suffixes == {<<>>, <<"N">>, <<"S">>, <<"E">>, <<"W">>, <<"X">>, <<"s">>, <<"w", " ">>}

\* a numeric body of at most MaxBodyLen characters, then an optional letter
CoordInputs == {b \o x : b \in SeqsUpTo(BodyChars, MaxBodyLen), x \in Suffixes}

\* the texts given for the other axis
PartnerInputs == {<<"7", "4", "W">>, <<"4", "0", "N">>, <<"2", "0", "0">>}

InitCoord ==
    /\ pc = "call"
    /\ \/ lat_str \in CoordInputs /\ lon_str \in PartnerInputs
       \/ lat_str \in PartnerInputs /\ lon_str \in CoordInputs
    /\ parts = Unset /\ pair = Unset
    /\ IdleGrid /\ IdleResolve /\ IdleBuild /\ IdleAdif

ParseLatLon ==
    /\ pc = "call"
    /\ pair = Unset
    /\ parts' = [lat |-> _parse_coord(lat_str, TRUE),
                 lon |-> _parse_coord(lon_str, FALSE)]
    /\ pair' = parse_latlon(lat_str, lon_str)
    /\ pc' = "returned"
    /\ UNCHANGED <<lat_str, lon_str, gridVars, resolveVars, buildVars, adifVars>>

NextCoord == ParseLatLon

SpecCoord == InitCoord /\ [][NextCoord]_vars

---------------------------------------------------------------------------
(* SpecResolve: one call of best_latlon on a Field Mapping *)

LatValues ==
    {<<>>, <<" ">>, <<"4","0",".","5","N">>, <<"9","5","N">>, <<"4","0","E">>,
     <<"-","4","0">>}

LonValues ==
    {<<>>, <<"7","4","W">>, <<"2","0","0">>, <<"7","4","N">>, <<"x">>}

GridValues ==
    {<<>>, <<"F","N","2","0">>, <<"f","n","2","0"," ">>, <<"F","N","2">>,
     <<"Z","Z">>, <<"A","A","sup2","sup2">>, <<"F","N","2","0","1","2">>}

MyGridValues == {<<>>, <<"J","N","5","8">>, <<"J">>}

\* a key is missing ({}) or holds one value ({v})
Opts(values) == {{}} \cup {{v} : v \in values}

MkEntry(la, lo, g, my) ==
    LET opt == [i \in 1..4 |-> <<la, lo, g, my>>[i]]
        key == <<LAT, LON, GRIDSQUARE, MY_GRIDSQUARE>>
        here == {i \in 1..4 : opt[i] # {}}
    IN [k \in {key[i] : i \in here} |->
           CHOOSE v \in opt[CHOOSE i \in here : key[i] = k] : TRUE]

ResolveEntries ==
    {MkEntry(la, lo, g, my) : la \in Opts(LatValues), lo \in Opts(LonValues),
                              g \in Opts(GridValues), my \in Opts(MyGridValues)}

InitResolve ==
    /\ pc = "call"
    /\ entry \in ResolveEntries
    /\ pos = Unset
    /\ IdleGrid /\ IdleCoord /\ IdleBuild /\ IdleAdif

BestLatLon ==
    /\ pc = "call"
    /\ pos = Unset
    /\ pos' = best_latlon(entry)
    /\ pc' = IF pos' = Raised THEN "raised" ELSE "returned"
    /\ UNCHANGED <<entry, gridVars, coordVars, buildVars, adifVars>>

NextResolve == BestLatLon

SpecResolve == InitResolve /\ [][NextResolve]_vars

---------------------------------------------------------------------------
(* Spec: one run of build_map *)

CALL == <<"C","A","L","L">>

\* a record with the keys whose option is not empty
Rec(call, la, lo, g) ==
    LET opt == [i \in 1..4 |-> <<call, la, lo, g>>[i]]
        key == <<CALL, LAT, LON, GRIDSQUARE>>
        here == {i \in 1..4 : opt[i] # {}}
    IN [k \in {key[i] : i \in here} |->
           CHOOSE v \in opt[CHOOSE i \in here : key[i] = k] : TRUE]

\* the records a list given to build_map is made of
RecordChoices ==
    { Rec({<<"K","1">>}, {}, {}, {<<"F","N","2","0">>}),
      Rec({<<"K","2">>}, {<<"4","0",".","5","N">>}, {<<"7","4","W">>},
          {<<"F","N","2","0">>}),
      Rec({<<"K","3">>}, {}, {}, {}),
      Rec({}, {<<"9","5","N">>}, {<<"7","4","W">>}, {}),
      Rec({<<"K","5">>}, {}, {}, {<<"A","A","sup2","sup2">>}),
      Rec({<<"K","6">>}, {}, {}, {<<"Z","Z">>}) }

\* a home location given by the caller (cli.py checks its range)
HomeChoices == {NoHome, Coord(Rat(405, 10), Rat(-75, 1))}

Init ==
    /\ pc = "loop"
    /\ records \in SeqsUpTo(RecordChoices, MaxRecords)
    /\ home_latlon \in HomeChoices
    /\ export_csv \in BOOLEAN
    /\ export_geojson \in BOOLEAN
    /\ idx = 1 /\ points = <<>> /\ skipped = 0 /\ written = {} /\ report = Unset
    /\ IdleGrid /\ IdleCoord /\ IdleResolve /\ IdleAdif

\* a loop body that leaves the skip counter alone
LoopBodyUncounted(rec, p) ==
    IF p = Raised
    THEN pc' = "raised" /\ UNCHANGED <<idx, points, skipped>>
    ELSE IF p = None
    THEN idx' = idx + 1 /\ UNCHANGED <<pc, points, skipped>>
    ELSE /\ points' = Append(points, [lat |-> p.lat, lon |-> p.lon, rec |-> rec])
         /\ idx' = idx + 1
         /\ UNCHANGED <<pc, skipped>>

\* the body of the loop for rec, with p the outcome of best_latlon(rec)
LoopBody(rec, p) ==
    IF p = Raised
    THEN pc' = "raised" /\ UNCHANGED <<idx, points, skipped>>
    ELSE IF p = None
    THEN /\ skipped' = skipped + 1
         /\ idx' = idx + 1
         /\ UNCHANGED <<pc, points>>
    ELSE /\ points' = Append(points, [lat |-> p.lat, lon |-> p.lon, rec |-> rec])
         /\ idx' = idx + 1
         /\ UNCHANGED <<pc, skipped>>

\* one pass of `for rec in records`
LoopStep ==
    /\ pc = "loop"
    /\ idx <= Len(records)
    /\ LoopBody(records[idx], best_latlon(records[idx]))
    /\ UNCHANGED <<records, home_latlon, export_csv, export_geojson, written, report,
                   gridVars, coordVars, resolveVars, adifVars>>

\* a test after the loop that does not look at the home location
CheckPlottableAnyHome ==
    /\ pc = "loop"
    /\ idx > Len(records)
    /\ pc' = IF points = <<>> THEN "SystemExit" ELSE "render"
    /\ UNCHANGED <<buildVars, gridVars, coordVars, resolveVars, adifVars>>

\* `if not points and not home_latlon: raise SystemExit(...)`, after the loop
CheckPlottable ==
    /\ pc = "loop"
    /\ idx > Len(records)
    /\ pc' = IF points = <<>> /\ home_latlon = NoHome THEN "SystemExit" ELSE "render"
    /\ UNCHANGED <<buildVars, gridVars, coordVars, resolveVars, adifVars>>

\* the map, its layers, markers, legends and panels are built in memory
Render ==
    /\ pc = "render"
    /\ pc' = "export"
    /\ UNCHANGED <<buildVars, gridVars, coordVars, resolveVars, adifVars>>

Export ==
    /\ pc = "export"
    /\ written' = written \cup (IF export_csv THEN {"csv"} ELSE {})
                          \cup (IF export_geojson THEN {"geojson"} ELSE {})
    /\ pc' = "save"
    /\ UNCHANGED <<records, home_latlon, export_csv, export_geojson, idx, points,
                   skipped, report, gridVars, coordVars, resolveVars, adifVars>>

Save ==
    /\ pc = "save"
    /\ written' = written \cup {"map"}
    /\ report' = [qsos |-> Len(points), skipped |-> skipped]
    /\ pc' = "done"
    /\ UNCHANGED <<records, home_latlon, export_csv, export_geojson, idx, points,
                   skipped, gridVars, coordVars, resolveVars, adifVars>>

Next == LoopStep \/ CheckPlottable \/ Render \/ Export \/ Save

Spec == Init /\ [][Next]_vars

---------------------------------------------------------------------------
(* adif.py *)

\* r"<eoh>" and r"<eor>", matched with re.IGNORECASE
EOH == <<"<", "e", "o", "h", ">">>

EOR == <<"<", "e", "o", "r", ">">>

\* the marker matches at position i of text letter for letter, case and all
MarkerAtExact(text, i, marker) ==
    /\ i + Len(marker) - 1 <= Len(text)
    /\ \A k \in 1..Len(marker) : text[i + k - 1] = marker[k]

\* the marker matches at position i of text, whatever the case of its letters
MarkerAt(text, i, marker) ==
    /\ i + Len(marker) - 1 <= Len(text)
    /\ \A k \in 1..Len(marker) : LowerChar(text[i + k - 1]) = marker[k]

\* re.search: the first position where the marker matches, 0 when none does
FirstMarker(text, marker) ==
    IF \E i \in 1..Len(text) : MarkerAt(text, i, marker)
    THEN CHOOSE i \in 1..Len(text) :
             /\ MarkerAt(text, i, marker)
             /\ \A j \in 1..(i - 1) : ~MarkerAt(text, j, marker)
    ELSE 0

AfterMarker(text, at, marker) ==
    IF at = 0 THEN text ELSE SubSeq(text, at + Len(marker), Len(text))

\* `data = content[header_end.end():] if header_end else content`
DataOf(content_) == AfterMarker(content_, FirstMarker(content_, EOH), EOH)

RECURSIVE SplitEor(_)
\* re.split(_EOR_RE, data)
SplitAt(data, at) ==
    IF at = 0 THEN <<data>>
    ELSE <<SubSeq(data, 1, at - 1)>> \o SplitEor(AfterMarker(data, at, EOR))

SplitEor(data) == SplitAt(data, FirstMarker(data, EOR))

\* [A-Za-z0-9_]
IsNameChar(c) == IsAlpha(c) \/ IsAsciiDigit(c) \/ c = "_"

RECURSIVE NameEnd(_, _)
\* the position after the run of name characters that starts at i
NameEnd(raw, i) ==
    IF i <= Len(raw) /\ IsNameChar(raw[i]) THEN NameEnd(raw, i + 1) ELSE i

RECURSIVE DigitEnd(_, _)
\* the position after the run of \d characters that starts at i
DigitEnd(raw, i) ==
    IF i <= Len(raw) /\ IsAsciiDigit(raw[i]) THEN DigitEnd(raw, i + 1) ELSE i

RECURSIVE FirstFrom(_, _, _)
\* the first position from i on that holds c; Len(raw) + 1 when none does
FirstFrom(raw, i, c) ==
    IF i <= Len(raw) /\ raw[i] # c THEN FirstFrom(raw, i + 1, c) ELSE i

\* `(?::[^>]*)?>` at position de: where VALUE starts, 0 when the tag fails
ValueStart(raw, de) ==
    IF de > Len(raw) THEN 0
    ELSE IF raw[de] = ">" THEN de + 1
    ELSE IF raw[de] = ":" /\ FirstFrom(raw, de + 1, ">") <= Len(raw)
    THEN FirstFrom(raw, de + 1, ">") + 1
    ELSE 0

\* `:(\d+)` at position ne
AfterName(raw, i, ne, de) ==
    IF ne = i + 1 \/ ne > Len(raw) THEN 0
    ELSE IF raw[ne] # ":" \/ de = ne + 1 THEN 0
    ELSE ValueStart(raw, de)

\* field_pat tried at position i: where VALUE starts, 0 when there is no match
TagValueStart(raw, i) ==
    IF raw[i] # "<" THEN 0
    ELSE AfterName(raw, i, NameEnd(raw, i + 1), DigitEnd(raw, NameEnd(raw, i + 1) + 1))

\* `entry[name] = value.strip()`
Store(entry_, name, value) ==
    [k \in DOMAIN entry_ \cup {name} |-> IF k = name THEN value ELSE entry_[k]]

\* the name as written, its case kept
MatchNameAsWritten(raw, i) == SubSeq(raw, i + 1, NameEnd(raw, i + 1) - 1)

\* match.group(1).upper()
MatchName(raw, i) == Upper(SubSeq(raw, i + 1, NameEnd(raw, i + 1) - 1))

\* int(match.group(2))
MatchLength(raw, i) ==
    DigitsValue(SubSeq(raw, NameEnd(raw, i + 1) + 1,
                       DigitEnd(raw, NameEnd(raw, i + 1) + 1) - 1))

\* match.group(3)[:length].strip(), the match's VALUE running from vs to ve - 1
MatchValue(raw, vs, ve, length) == Strip(Slice(SubSeq(raw, vs, ve - 1), 0, length))

RECURSIVE ScanFields(_, _, _)
\* one step of field_pat.finditer(raw) at position i; vs is where VALUE starts
ScanAt(raw, i, entry_, vs, ve) ==
    IF vs = 0 THEN ScanFields(raw, i + 1, entry_)
    ELSE ScanFields(raw, ve,
                    Store(entry_, MatchName(raw, i),
                          MatchValue(raw, vs, ve, MatchLength(raw, i))))

TagEnd(raw, vs) == IF vs = 0 THEN 0 ELSE FirstFrom(raw, vs, "<")

ScanFrom(raw, i, entry_, vs) == ScanAt(raw, i, entry_, vs, TagEnd(raw, vs))

\* `for match in field_pat.finditer(raw)`, from position i on
ScanFields(raw, i, entry_) ==
    IF i > Len(raw) THEN entry_
    ELSE ScanFrom(raw, i, entry_, TagValueStart(raw, i))

\* the empty mapping
NoFields == [k \in {} |-> <<>>]

\* the entry is appended whether it holds a field or not
AppendEntryAlways(recs, entry_) == Append(recs, entry_)

\* `if entry: records.append(entry)`
AppendEntry(recs, entry_) ==
    IF DOMAIN entry_ = {} THEN recs ELSE Append(recs, entry_)

\* the body of `for raw in raw_recs`, raw already stripped
ChunkRecords(recs, raw) ==
    IF raw = <<>> THEN recs ELSE AppendEntry(recs, ScanFields(raw, 1, NoFields))

RECURSIVE CollectRecords(_, _)
CollectRecords(recs, raw_recs) ==
    IF raw_recs = <<>> THEN recs
    ELSE CollectRecords(ChunkRecords(recs, Strip(Head(raw_recs))), Tail(raw_recs))

parse_adif(content_) == CollectRecords(<<>>, SplitEor(DataOf(content_)))

---------------------------------------------------------------------------
(* SpecAdif: one call of parse_adif on a text made of pieces *)

\* a tag <NAME:LEN>VALUE, VALUE being the text the piece holds after the tag
Tag(name, len, value) ==
    [kind |-> "tag", name |-> name, len |-> len, value |-> value,
     text |-> <<"<">> \o name \o <<":">> \o len \o <<">">> \o value]

\* a marker, whitespace, or a malformed tag with the text after it
Other(kind, text) ==
    [kind |-> kind, name |-> <<>>, len |-> <<>>, value |-> <<>>, text |-> text]

PieceChoices ==
    { Tag(<<"c","a","l","l">>, <<"2">>, <<"a","b">>),
      Tag(<<"C","A","L","L">>, <<"1">>, <<"x","y">>),
      Tag(<<"B">>, <<"3">>, <<" ","a">>),
      Tag(<<"Z">>, <<"0">>, <<"v">>),
      Other("eor", <<"<","E","O","R",">">>),
      Other("eor", <<"<","E","o","r",">">>),
      Other("eoh", <<"<","e","o","h",">">>),
      Other("space", <<" ">>),
      Other("bad", <<"<","B","A","D",":","x",">","q">>),
      Other("bad", <<"<","B","A","D",":","1"," ","q">>),
      Other("bad", <<"<","B","A","D",":","1",":","t">>) }

RECURSIVE TextOf(_)
\* the text the pieces make
TextOf(ps) == IF ps = <<>> THEN <<>> ELSE Head(ps).text \o TextOf(Tail(ps))

\* the pieces a text of the model may hold at each position: any of them at
\* the first four, an <EOR> after that
PiecesAt(i) ==
    IF i <= 4 THEN PieceChoices ELSE {Other("eor", <<"<","E","O","R",">">>)}

RECURSIVE PiecesOfLen(_)
PiecesOfLen(k) ==
    IF k = 0 THEN {<<>>}
    ELSE {Append(ps, p) : ps \in PiecesOfLen(k - 1), p \in PiecesAt(k)}

PieceInputs == UNION {PiecesOfLen(k) : k \in 0..MaxPieces}

InitAdif ==
    /\ pc = "call"
    /\ pieces \in PieceInputs
    /\ content = TextOf(pieces)
    /\ parsed = <<>>
    /\ IdleGrid /\ IdleCoord /\ IdleResolve /\ IdleBuild

ParseAdif ==
    /\ pc = "call"
    /\ parsed' = parse_adif(content)
    /\ pc' = "returned"
    /\ UNCHANGED <<pieces, content, gridVars, coordVars, resolveVars, buildVars>>

NextAdif == ParseAdif

SpecAdif == InitAdif /\ [][NextAdif]_vars

---------------------------------------------------------------------------
(* Claims about the reduction loop of build_map, checked under Spec *)

RECURSIVE ResolvedOf(_)
\* the records of recs for which best_latlon returns a coordinate, each with
\* that coordinate, in the order of recs
ResolvedOf(recs) ==
    IF recs = <<>> THEN <<>>
    ELSE LET rec == recs[Len(recs)]
             p == best_latlon(rec)
             before == ResolvedOf(SubSeq(recs, 1, Len(recs) - 1))
         IN IF p.kind = "coord"
            THEN Append(before, [lat |-> p.lat, lon |-> p.lon, rec |-> rec])
            ELSE before

\* how many records of recs best_latlon returns absent for
AbsentIn(recs) == Cardinality({i \in DOMAIN recs : best_latlon(recs[i]) = None})

\* the records the loop has gone through
Processed == SubSeq(records, 1, idx - 1)

---------------------------------------------------------------------------
(* Claims about maidenhead_to_latlon, checked under SpecGrid *)

FN20 == <<"F", "N", "2", "0">>

\* |v - target| <= 1/100
Within01(v, target) ==
    /\ 100 * v.n - 100 * target * v.d <= v.d
    /\ 100 * target * v.d - 100 * v.n <= v.d

\* C9 as stated: maidenhead_to_latlon("FN20") is a coordinate within 0.01
\* degrees of latitude 41.0 and longitude -72.0.
C9_AsStated ==
    pc = "returned" /\ grid = FN20 =>
        /\ gridResult.kind = "coord"
        /\ Within01(gridResult.lat, 41)
        /\ Within01(gridResult.lon, -72)

\* C9 amended: maidenhead_to_latlon("FN20") is the coordinate of latitude
\* 40.5 and longitude -75.0, the corner (40, -76) of the 2 x 1 degree cell
\* plus half the cell.
C9_Centre ==
    pc = "returned" /\ grid = FN20 =>
        /\ gridResult.kind = "coord"
        /\ RatEq(gridResult.lat, Rat(81, 2))
        /\ RatEq(gridResult.lon, Rat(-75, 1))

\* C9 witness: the call on "FN20" has returned a coordinate.
C9_Witness == pc = "returned" /\ grid = FN20 /\ gridResult.kind = "coord"

\* the normalised grid of the call
NormGrid == Upper(Strip(grid))

\* the normalised grid has an odd length below 8, or a character of the wrong
\* class (by str.isdigit, str.isalpha) at a square, subsquare or extended
\* square position
Malformed(g) ==
    \/ Len(g) \in {1, 3, 5, 7}
    \/ Len(g) >= 4 /\ ~(IsDigit(g[3]) /\ IsDigit(g[4]))
    \/ Len(g) >= 6 /\ ~(IsAlpha(g[5]) /\ IsAlpha(g[6]))
    \/ Len(g) >= 8 /\ ~(IsDigit(g[7]) /\ IsDigit(g[8]))

\* C5: maidenhead_to_latlon returns absent for every grid whose normalised
\* length is 1, 3, 5 or 7, and for every grid with a non-digit at position 2
\* or 3 (length >= 4), a non-letter at position 4 or 5 (length >= 6), or a
\* non-digit at position 6 or 7 (length >= 8).
C5_Rejects == (pc # "call" /\ Malformed(NormGrid)) => gridResult = None

---------------------------------------------------------------------------
(* Claims about best_latlon, checked under SpecResolve *)

\* what the priority rule gives for entry: the direct pair when LAT and LON
\* are there, not empty and parse; else the coordinate of the grid field
\* (GRIDSQUARE, then MY_GRIDSQUARE) when it converts; else absent
PriorityRule ==
    LET direct == IF Truthy(entry, LAT) /\ Truthy(entry, LON)
                  THEN parse_latlon(entry[LAT], entry[LON]) ELSE None
        g == GridOf(entry)
        conv == IF g # <<>> THEN maidenhead_to_latlon(g) ELSE None
    IN IF direct # None THEN Tagged(direct, "LATLON")
       ELSE IF conv.kind = "coord" THEN Tagged(conv, "GRID")
       ELSE None

\* C3: for every record the result of best_latlon is what the priority rule
\* gives: the LAT/LON pair tagged LATLON, else the grid-derived coordinate
\* tagged GRID, else absent.
C3_Priority == pc # "call" => pos = PriorityRule

\* C4: every coordinate best_latlon yields, parsed from LAT/LON or derived
\* from a grid square, has its latitude in [-90, 90] and its longitude in
\* [-180, 180]; a value outside either range gives absent instead.
C4_InRange ==
    pc # "call" /\ pos.kind = "coord" =>
        InRange(pos.lat, 90) /\ InRange(pos.lon, 180)

\* C7: best_latlon, and maidenhead_to_latlon under it, never raise: the call
\* ends with a coordinate or with absent.
C7_NeverRaises == pc # "raised" /\ (pc # "call" => pos.kind \in {"coord", "none"})

---------------------------------------------------------------------------
(* Claims about parse_latlon, checked under SpecCoord *)

\* the stripped text ends in one of the letters, in either case
EndsIn(text, letters) ==
    LET s == Strip(text)
    IN s # <<>> /\ UpperChar(s[Len(s)]) \in letters

\* C6: a latitude text ending in E or W, or a longitude text ending in N or
\* S, makes its parse fail, and parse_latlon then returns absent.
C6_AxisLetter ==
    pc = "returned" =>
        /\ EndsIn(lat_str, {"E", "W"}) => parts.lat = None /\ pair = None
        /\ EndsIn(lon_str, {"N", "S"}) => parts.lon = None /\ pair = None

---------------------------------------------------------------------------
(* Claims about parse_adif, checked under SpecAdif *)

\* the pieces after the first <eoh>, all of them when there is none
AfterHeader(ps) ==
    IF \E i \in DOMAIN ps : ps[i].kind = "eoh"
    THEN SubSeq(ps, 1 + CHOOSE i \in DOMAIN ps :
                        /\ ps[i].kind = "eoh"
                        /\ \A j \in 1..(i - 1) : ps[j].kind # "eoh",
                Len(ps))
    ELSE ps

RECURSIVE GroupsOf(_)
\* the runs of pieces between <eor> markers, the run after the last one too
GroupsOf(ps) ==
    IF \E i \in DOMAIN ps : ps[i].kind = "eor"
    THEN LET at == CHOOSE i \in DOMAIN ps :
                       /\ ps[i].kind = "eor"
                       /\ \A j \in 1..(i - 1) : ps[j].kind # "eor"
         IN <<SubSeq(ps, 1, at - 1)>> \o GroupsOf(SubSeq(ps, at + 1, Len(ps)))
    ELSE <<ps>>

TagsOf(g) == {i \in DOMAIN g : g[i].kind = "tag"}

RECURSIVE Trailing(_, _)
\* the whitespace that follows a tag's piece, from position i of the group on
Trailing(g, i) ==
    IF i > Len(g) \/ g[i].kind # "space" THEN <<>>
    ELSE g[i].text \o Trailing(g, i + 1)

\* VALUE of the tag at position i: the text from its '>' to the next '<'
ValueOf(g, i) == g[i].value \o Trailing(g, i + 1)

\* the first LEN characters of VALUE, surrounding whitespace trimmed
Held(g, i) == Strip(Slice(ValueOf(g, i), 0, DigitsValue(g[i].len)))

NameOf(g, i) == Upper(g[i].name)

\* the last tag of the group with the upper-cased name k
LastOf(g, k) ==
    CHOOSE i \in TagsOf(g) :
        /\ NameOf(g, i) = k
        /\ \A j \in TagsOf(g) : j > i => NameOf(g, j) # k

\* the groups that hold a tag, in order
RecordGroups(ps) == SelectSeq(GroupsOf(AfterHeader(ps)), LAMBDA g : TagsOf(g) # {})

\* the text is made of well-formed tags, grouped into <EOR>-terminated
\* records of one tag or more, with nothing but whitespace in between
WellFormed(ps) ==
    /\ ps # <<>>
    /\ \A i \in DOMAIN ps : ps[i].kind \in {"tag", "eor", "space"}
    /\ LET gs == GroupsOf(ps)
       IN /\ \A j \in 1..(Len(gs) - 1) : TagsOf(gs[j]) # {}
          /\ TagsOf(gs[Len(gs)]) = {}

\* C1 as stated: on a well-formed text parse_adif returns one mapping per
\* record, in input order, and the mapping of a record holds, for every tag
\* of the record, the first LEN characters of the tag's VALUE, trimmed, under
\* the tag's upper-cased NAME.
C1_AsStated ==
    pc = "returned" /\ WellFormed(pieces) =>
        LET gs == RecordGroups(pieces)
        IN /\ Len(parsed) = Len(gs)
           /\ \A j \in DOMAIN gs : \A i \in TagsOf(gs[j]) :
                  /\ NameOf(gs[j], i) \in DOMAIN parsed[j]
                  /\ parsed[j][NameOf(gs[j], i)] = Held(gs[j], i)

\* C1 amended: on a well-formed text parse_adif returns one mapping per
\* record, in input order; the keys of a record's mapping are the upper-cased
\* NAMEs of its tags, and under each key it holds the first LEN characters of
\* VALUE, trimmed, of the last tag of the record with that upper-cased NAME.
C1_LastTagHeld ==
    pc = "returned" /\ WellFormed(pieces) =>
        LET gs == RecordGroups(pieces)
        IN /\ Len(parsed) = Len(gs)
           /\ \A j \in DOMAIN gs :
                  /\ DOMAIN parsed[j] = {NameOf(gs[j], i) : i \in TagsOf(gs[j])}
                  /\ \A k \in DOMAIN parsed[j] :
                         parsed[j][k] = Held(gs[j], LastOf(gs[j], k))

\* C1 witness: a well-formed text of two records has been parsed into two
\* mappings, the first of them under a NAME written in lower case.
C1_Witness ==
    /\ pc = "returned"
    /\ WellFormed(pieces)
    /\ Len(parsed) = 2
    /\ pieces[1].kind = "tag" /\ pieces[1].name # Upper(pieces[1].name)

\* the mapping a group's well-formed tags give
MappingOf(g) ==
    [k \in {NameOf(g, i) : i \in TagsOf(g)} |-> Held(g, LastOf(g, k))]

\* C8: parse_adif never raises, and a malformed tag is never matched: the
\* records returned are those of the well-formed tags alone, each under its
\* own name and with its own value, whatever malformed tags stand before or
\* after them in the chunk.
C8_MalformedIgnored ==
    /\ pc # "raised"
    /\ pc = "returned" =>
          LET gs == RecordGroups(pieces)
          IN /\ Len(parsed) = Len(gs)
             /\ \A j \in DOMAIN gs : parsed[j] = MappingOf(gs[j])


\* the other case of a letter
SwapChar(c) == IF IsUpper(c) THEN LowerChar(c) ELSE UpperChar(c)

\* the pieces with the letters of every <eoh> and <eor> marker written in
\* lower case ("lower") or each in its other case ("swap")
Recased(ps, style) ==
    [i \in DOMAIN ps |->
        IF ps[i].kind \in {"eoh", "eor"}
        THEN [ps[i] EXCEPT !.text =
                 [k \in DOMAIN ps[i].text |->
                     IF style = "lower" THEN LowerChar(ps[i].text[k])
                     ELSE SwapChar(ps[i].text[k])]]
        ELSE ps[i]]

\* C11: parse_adif returns the same record list when the letters of the
\* <eoh> and <eor> markers of its input are written in another case; and on
\* a text without malformed tags, whatever the case of its markers, the
\* records are those of the pieces after the header, split at the <eor>
\* markers.
C11_MarkerCase ==
    pc = "returned" =>
        /\ \A style \in {"lower", "swap"} :
               parse_adif(TextOf(Recased(pieces, style))) = parsed
        /\ (\A i \in DOMAIN pieces : pieces[i].kind # "bad") =>
               LET gs == RecordGroups(pieces)
               IN /\ Len(parsed) = Len(gs)
                  /\ \A j \in DOMAIN gs : parsed[j] = MappingOf(gs[j])

\* C11 witness: a text with a header, then two records split by an <EOR>
\* written in upper case, has been parsed into two mappings.
C11_Witness ==
    /\ pc = "returned"
    /\ Len(pieces) = 4
    /\ pieces[1].kind = "eoh"
    /\ pieces[2].kind = "tag"
    /\ pieces[3].text = <<"<", "E", "O", "R", ">">>
    /\ pieces[4].kind = "tag"
    /\ Len(parsed) = 2


\* field_pat matches somewhere in the text
HasMatch(raw) == \E i \in DOMAIN raw : TagValueStart(raw, i) # 0

\* the chunks of the text: the runs of pieces of the data between <eor>
\* markers, the last run too
ChunksOf(ps) == GroupsOf(AfterHeader(ps))

\* the chunks that hold a tag match
MatchedChunks(ps) ==
    {j \in DOMAIN ChunksOf(ps) : HasMatch(TextOf(ChunksOf(ps)[j]))}

\* the chunk is whitespace around one well-formed tag, whose LENGTH is 0
OnlyTagOfLengthZero(g) ==
    /\ Cardinality(TagsOf(g)) = 1
    /\ \A i \in DOMAIN g : g[i].kind \in {"tag", "space"}
    /\ \A i \in TagsOf(g) : DigitsValue(g[i].len) = 0

\* C12: parse_adif returns as many mappings as there are chunks with a tag
\* match, so a chunk of whitespace or of stray text gives none; every mapping
\* returned has a key; and a chunk whose only tag has LENGTH 0 gives, at its
\* place among the matched chunks, the mapping of that tag's upper-cased name
\* to the empty string.
C12_RecordIffMatch ==
    pc = "returned" =>
        LET gs == ChunksOf(pieces)
            hit == MatchedChunks(pieces)
        IN /\ Len(parsed) = Cardinality(hit)
           /\ \A r \in DOMAIN parsed : DOMAIN parsed[r] # {}
           /\ \A j \in DOMAIN gs : OnlyTagOfLengthZero(gs[j]) =>
                  /\ j \in hit
                  /\ parsed[Cardinality({k \in hit : k <= j})]
                       = [k \in {NameOf(gs[j], i) : i \in TagsOf(gs[j])} |-> <<>>]

\* C12 witness: a text of a chunk whose only tag has LENGTH 0 and a chunk of
\* stray text has been parsed into the one mapping of that tag's name to the
\* empty string.
C12_Witness ==
    /\ pc = "returned"
    /\ Len(pieces) = 3
    /\ pieces[1].kind = "tag" /\ pieces[1].len = <<"0">>
    /\ pieces[2].kind = "eor"
    /\ pieces[3].kind = "bad"
    /\ Len(parsed) = 1
    /\ \A k \in DOMAIN parsed[1] : parsed[1][k] = <<>>


---------------------------------------------------------------------------
(* Further claims about maidenhead_to_latlon, checked under SpecGrid *)

---------------------------------------------------------------------------
(* Further claims about _parse_coord, checked under SpecCoord *)

\* the text parsed to the number v, and v has the sign its hemisphere letter
\* calls for: not above zero after S or W, not below zero after N or E
SignFits(text, v) ==
    v.kind = "value" =>
        /\ EndsIn(text, {"S", "W"}) => v.val.n <= 0
        /\ EndsIn(text, {"N", "E"}) => v.val.n >= 0

\* C14: every text that _parse_coord parses and that ends in S or W gives a
\* value <= 0, and every one that ends in N or E gives a value >= 0, whatever
\* the number before the letter is.
C14_SuffixSign ==
    pc = "returned" => SignFits(lat_str, parts.lat) /\ SignFits(lon_str, parts.lon)


---------------------------------------------------------------------------
(* Further claims about best_latlon, checked under SpecResolve *)

\* LAT and LON give no valid pair, so the result comes from the grid fields
NoDirectPair ==
    ~(/\ Truthy(entry, LAT) /\ Truthy(entry, LON)
      /\ parse_latlon(entry[LAT], entry[LON]) # None)

\* the record without its MY_GRIDSQUARE field
WithoutMyGrid == [k \in DOMAIN entry \ {MY_GRIDSQUARE} |-> entry[k]]

\* C15: MY_GRIDSQUARE is consulted only when GRIDSQUARE is missing or empty.
\* With a non-empty GRIDSQUARE the result is what it is without the
\* MY_GRIDSQUARE field; when LAT/LON give no pair, it is the GRIDSQUARE
\* coordinate if GRIDSQUARE converts and absent if it does not, whatever
\* MY_GRIDSQUARE holds; and with GRIDSQUARE missing or empty and no LAT/LON
\* pair it is the MY_GRIDSQUARE coordinate, or absent.
C15_AlternateGrid ==
    pc # "call" =>
        /\ Truthy(entry, GRIDSQUARE) =>
              /\ pos = best_latlon(WithoutMyGrid)
              /\ NoDirectPair =>
                    pos = IF maidenhead_to_latlon(entry[GRIDSQUARE]).kind = "coord"
                          THEN Tagged(maidenhead_to_latlon(entry[GRIDSQUARE]), "GRID")
                          ELSE None
        /\ ~Truthy(entry, GRIDSQUARE) /\ NoDirectPair =>
              pos = IF /\ Truthy(entry, MY_GRIDSQUARE)
                       /\ maidenhead_to_latlon(entry[MY_GRIDSQUARE]).kind = "coord"
                    THEN Tagged(maidenhead_to_latlon(entry[MY_GRIDSQUARE]), "GRID")
                    ELSE None

===========================================================================
